---- MODULE Spec2Model ----
(***************************************************************************)
(* A model of ConfigManager (src/ConfigManager.py): an attribute bag whose *)
(* public attributes are written to a JSON file by save_config() and read  *)
(* back by load_config(), with tuples, sets and byte strings carried in    *)
(* tagged JSON objects.                                                    *)
(*                                                                         *)
(* Python values are records [t |-> <type name>, v |-> <payload>]; the     *)
(* document held by the file is a tree of records [j |-> <JSON kind>,      *)
(* jv |-> <payload>].  An exception is the value Raise(<exception name>).  *)
(***************************************************************************)
EXTENDS Integers, Sequences, FiniteSets, TLC

VARIABLES attrs, file, pc, gen, last

vars == <<attrs, file, pc, gen, last>>

---------------------------------------------------------------------------
(* Python values *)

PyNone == [t |-> "NoneType", v |-> 0]
PyBool(b) == [t |-> "bool", v |-> b]
PyInt(i) == [t |-> "int", v |-> i]
\* a float is carried by its repr, the text json writes and parses back
PyFloat(r) == [t |-> "float", v |-> r]
PyComplex(re, im) == [t |-> "complex", v |-> <<re, im>>]
PyStr(s) == [t |-> "str", v |-> s]
\* a byte string is a sequence of numbers 0..255
PyBytes(b) == [t |-> "bytes", v |-> b]
PyList(s) == [t |-> "list", v |-> s]
PyTuple(s) == [t |-> "tuple", v |-> s]
PySet(S) == [t |-> "set", v |-> S]
\* a dict is a function from its keys (Python values) to its values
PyDict(f) == [t |-> "dict", v |-> f]
\* an instance of some other class
PyObject == [t |-> "object", v |-> 0]
\* a bound method of the manager, found on the class
PyMethod(name) == [t |-> "method", v |-> name]
Raise(exc) == [t |-> "raise", v |-> exc]

Dict1(k, x) == PyDict([q \in {PyStr(k)} |-> x])
Dict2(k1, x1, k2, x2) ==
    PyDict([q \in {PyStr(k1), PyStr(k2)} |-> IF q = PyStr(k1) THEN x1 ELSE x2])

IsRaise(x) == x.t = "raise"

\* the first exception raised along a sequence of results, if any
FirstRaise(s) ==
    IF \E i \in 1..Len(s) : IsRaise(s[i])
    THEN s[CHOOSE i \in 1..Len(s) :
              IsRaise(s[i]) /\ \A h \in 1..(i - 1) : ~IsRaise(s[h])]
    ELSE PyNone

\* the elements of a set in the order one iteration visits them; the order
\* is the interpreter's, and a set is rebuilt from the elements whatever it is
SetToSeq(S) ==
    CHOOSE s \in [1..Cardinality(S) -> S] : \A x \in S : \E i \in DOMAIN s : s[i] = x

---------------------------------------------------------------------------
(* base64, as base64.b64encode and base64.b64decode compute it *)

B64Alphabet ==
    << "A","B","C","D","E","F","G","H","I","J","K","L","M","N","O","P",
       "Q","R","S","T","U","V","W","X","Y","Z","a","b","c","d","e","f",
       "g","h","i","j","k","l","m","n","o","p","q","r","s","t","u","v",
       "w","x","y","z","0","1","2","3","4","5","6","7","8","9","+","/" >>

B64Char(n) == B64Alphabet[n + 1]

InB64Alphabet(c) == \E i \in 1..64 : B64Alphabet[i] = c

B64Index(c) == (CHOOSE i \in 1..64 : B64Alphabet[i] = c) - 1

RECURSIVE b64encode(_)
b64encode(b) ==
    IF Len(b) = 0 THEN ""
    ELSE IF Len(b) = 1 THEN
        B64Char(b[1] \div 4) \o B64Char((b[1] % 4) * 16) \o "=="
    ELSE IF Len(b) = 2 THEN
        B64Char(b[1] \div 4) \o B64Char((b[1] % 4) * 16 + b[2] \div 16)
            \o B64Char((b[2] % 16) * 4) \o "="
    ELSE
        B64Char(b[1] \div 4) \o B64Char((b[1] % 4) * 16 + b[2] \div 16)
            \o B64Char((b[2] % 16) * 4 + b[3] \div 64) \o B64Char(b[3] % 64)
            \o b64encode(SubSeq(b, 4, Len(b)))

\* binascii.a2b_base64 without strict mode: characters outside the alphabet
\* are skipped, padding ends the data once a quad is complete with it, and
\* data that stops inside a quad is an error
RECURSIVE a2b_base64(_, _, _, _, _, _)
a2b_base64(s, i, quad_pos, leftchar, pads, out) ==
    IF i > Len(s) THEN
        IF quad_pos # 0 THEN Raise("binascii.Error") ELSE PyBytes(out)
    ELSE LET c == SubSeq(s, i, i) IN
        IF c = "=" THEN
            IF quad_pos >= 2 /\ quad_pos + pads + 1 >= 4 THEN PyBytes(out)
            ELSE a2b_base64(s, i + 1, quad_pos, leftchar,
                            IF quad_pos >= 2 THEN pads + 1 ELSE pads, out)
        ELSE IF ~InB64Alphabet(c) THEN
            a2b_base64(s, i + 1, quad_pos, leftchar, pads, out)
        ELSE LET n == B64Index(c) IN
            CASE quad_pos = 0 -> a2b_base64(s, i + 1, 1, n, 0, out)
              [] quad_pos = 1 ->
                    a2b_base64(s, i + 1, 2, n % 16, 0,
                               Append(out, leftchar * 4 + n \div 16))
              [] quad_pos = 2 ->
                    a2b_base64(s, i + 1, 3, n % 4, 0,
                               Append(out, leftchar * 16 + n \div 4))
              [] OTHER ->
                    a2b_base64(s, i + 1, 0, 0, 0, Append(out, leftchar * 64 + n))

b64decode(s) == a2b_base64(s, 1, 0, 0, 0, <<>>)

---------------------------------------------------------------------------
(* the JSON document json.dump writes and json.load reads *)

JNull == [j |-> "null", jv |-> 0]
JBool(b) == [j |-> "bool", jv |-> b]
JInt(i) == [j |-> "int", jv |-> i]
JReal(r) == [j |-> "real", jv |-> r]
JString(s) == [j |-> "string", jv |-> s]
JArray(s) == [j |-> "array", jv |-> s]
\* an object is a function from its member names to its member values
JObject(f) == [j |-> "object", jv |-> f]
JRaise(exc) == [j |-> "raise", jv |-> exc]

\* no file at the path
NoFile == [j |-> "ENOENT", jv |-> 0]
\* the file a write that stopped part-way leaves: an opening brace and some
\* members, never the closing brace
Truncated == [j |-> "truncated", jv |-> 0]

Digits == << "0", "1", "2", "3", "4", "5", "6", "7", "8", "9" >>

RECURSIVE NatToStr(_)
NatToStr(n) ==
    IF n < 10 THEN Digits[n + 1] ELSE NatToStr(n \div 10) \o Digits[(n % 10) + 1]

IntToStr(i) == IF i < 0 THEN "-" \o NatToStr(0 - i) ELSE NatToStr(i)

JsonKeyTypes == {"str", "int", "float", "bool", "NoneType"}

\* the member name json.dump writes for a dict key
key_text(k) ==
    CASE k.t = "str" -> k.v
      [] k.t = "float" -> k.v
      [] k.t = "bool" -> IF k.v THEN "true" ELSE "false"
      [] k.t = "NoneType" -> "null"
      [] OTHER -> IntToStr(k.v)

\* json.dump: the document for a Python value, or TypeError for a value
\* (or a dict key) json cannot write
RECURSIVE json_dump(_)
json_dump(o) ==
    CASE o.t = "NoneType" -> JNull
      [] o.t = "bool" -> JBool(o.v)
      [] o.t = "int" -> JInt(o.v)
      [] o.t = "float" -> JReal(o.v)
      [] o.t = "str" -> JString(o.v)
      [] o.t \in {"list", "tuple"} ->
            LET items == [i \in 1..Len(o.v) |-> json_dump(o.v[i])] IN
            IF \E i \in 1..Len(items) : items[i].j = "raise"
            THEN JRaise("TypeError") ELSE JArray(items)
      [] o.t = "dict" ->
            LET keys == DOMAIN o.v
                names == {key_text(k) : k \in {q \in keys : q.t \in JsonKeyTypes}}
                member(s) ==
                    json_dump(o.v[CHOOSE k \in keys :
                                      k.t \in JsonKeyTypes /\ key_text(k) = s])
            IN  IF \/ \E k \in keys : k.t \notin JsonKeyTypes
                   \/ \E s \in names : member(s).j = "raise"
                THEN JRaise("TypeError")
                ELSE JObject([s \in names |-> member(s)])
      [] OTHER -> JRaise("TypeError")

---------------------------------------------------------------------------
(* the codec of ConfigManager *)

isinstance(obj, type) == obj.t = type

\* hashable values: what a set can hold
RECURSIVE Hashable(_)
Hashable(x) ==
    CASE x.t \in {"list", "dict", "set"} -> FALSE
      [] x.t = "tuple" -> \A i \in 1..Len(x.v) : Hashable(x.v[i])
      [] OTHER -> TRUE

Iterable(x) == x.t \in {"list", "tuple", "str", "bytes", "set", "dict"}

\* iter(x): the elements a for loop over an iterable x visits
Iter(x) ==
    CASE x.t \in {"list", "tuple"} -> x.v
      [] x.t = "str" -> [i \in 1..Len(x.v) |-> PyStr(SubSeq(x.v, i, i))]
      [] x.t = "bytes" -> [i \in 1..Len(x.v) |-> PyInt(x.v[i])]
      [] x.t = "set" -> SetToSeq(x.v)
      [] OTHER -> SetToSeq(DOMAIN x.v)

RECURSIVE _preprocess(_)
_preprocess(obj) ==
    CASE isinstance(obj, "tuple") ->
            Dict2("__type__", PyStr("tuple"),
                  "items", PyList([i \in 1..Len(obj.v) |-> _preprocess(obj.v[i])]))
      [] isinstance(obj, "set") ->
            LET items == SetToSeq(obj.v) IN
            Dict2("__type__", PyStr("set"),
                  "items", PyList([i \in 1..Len(items) |-> _preprocess(items[i])]))
      [] isinstance(obj, "bytes") ->
            Dict2("__type__", PyStr("bytes"), "data", PyStr(b64encode(obj.v)))
      [] isinstance(obj, "dict") ->
            PyDict([key \in DOMAIN obj.v |-> _preprocess(obj.v[key])])
      [] isinstance(obj, "list") ->
            PyList([i \in 1..Len(obj.v) |-> _preprocess(obj.v[i])])
      [] OTHER -> obj

RECURSIVE _custom_decoder(_)
_custom_decoder(dct) ==
    LET has(k) == PyStr(k) \in DOMAIN dct.v
        get(k) == dct.v[PyStr(k)]
        dec(x) == IF isinstance(x, "dict") THEN _custom_decoder(x) ELSE x
        nested == [key \in DOMAIN dct.v |-> dec(dct.v[key])]
        plain ==
            IF \E key \in DOMAIN nested : IsRaise(nested[key])
            THEN nested[CHOOSE key \in DOMAIN nested : IsRaise(nested[key])]
            ELSE PyDict(nested)
    IN
    IF ~has("__type__") THEN plain
    ELSE IF get("__type__") \in {PyStr("tuple"), PyStr("set")} THEN
        IF ~has("items") THEN Raise("KeyError")
        ELSE IF ~Iterable(get("items")) THEN Raise("TypeError")
        ELSE LET src == Iter(get("items"))
                 items == [i \in 1..Len(src) |-> dec(src[i])]
             IN  IF get("__type__") = PyStr("tuple") THEN
                     IF IsRaise(FirstRaise(items)) THEN FirstRaise(items)
                     ELSE PyTuple(items)
                 ELSE
                     LET added == [i \in 1..Len(items) |->
                                     IF ~IsRaise(items[i]) /\ ~Hashable(items[i])
                                     THEN Raise("TypeError") ELSE items[i]]
                     IN  IF IsRaise(FirstRaise(added)) THEN FirstRaise(added)
                         ELSE PySet({added[i] : i \in 1..Len(added)})
    ELSE IF get("__type__") = PyStr("bytes") THEN
        IF ~has("data") THEN Raise("KeyError")
        ELSE IF ~isinstance(get("data"), "str") THEN Raise("AttributeError")
        ELSE b64decode(get("data").v)
    ELSE plain

\* json.load(file, object_hook=_custom_decoder): every object of the document
\* is handed to the hook once its members are built, innermost first
RECURSIVE json_load(_)
json_load(doc) ==
    CASE doc.j = "null" -> PyNone
      [] doc.j = "bool" -> PyBool(doc.jv)
      [] doc.j = "int" -> PyInt(doc.jv)
      [] doc.j = "real" -> PyFloat(doc.jv)
      [] doc.j = "string" -> PyStr(doc.jv)
      [] doc.j = "array" ->
            LET items == [i \in 1..Len(doc.jv) |-> json_load(doc.jv[i])] IN
            IF IsRaise(FirstRaise(items)) THEN FirstRaise(items) ELSE PyList(items)
      [] doc.j = "object" ->
            LET members == [s \in DOMAIN doc.jv |-> json_load(doc.jv[s])] IN
            IF \E s \in DOMAIN members : IsRaise(members[s])
            THEN members[CHOOSE s \in DOMAIN members : IsRaise(members[s])]
            ELSE _custom_decoder(
                     PyDict([k \in {PyStr(s) : s \in DOMAIN doc.jv} |-> members[k.v]]))
      [] OTHER -> Raise("JSONDecodeError")

---------------------------------------------------------------------------
(* the attribute store *)

FilePath == "~/.config/foldr/file_name.conf"
DefaultComment == "DO NOT HAND EDIT!"

\* what the class itself contributes to dir(self) and to attribute lookup
ClassAttrs ==
    {"__init__", "__getattr__", "_custom_decoder", "_preprocess",
     "assign", "load_config", "save_config"}

NoAttrs == [n \in {} |-> PyNone]

dir(a) == DOMAIN a \cup ClassAttrs

startswith(s, prefix) ==
    Len(s) >= Len(prefix) /\ SubSeq(s, 1, Len(prefix)) = prefix

\* object.__getattribute__: the instance's attribute, else the class's
getattribute(a, name) ==
    IF name \in DOMAIN a THEN a[name]
    ELSE IF name \in ClassAttrs THEN PyMethod(name)
    ELSE Raise("AttributeError")

setattr(a, name, value) ==
    [n \in DOMAIN a \cup {name} |-> IF n = name THEN value ELSE a[n]]

\* a read that answers None for a missing attribute without creating it
getattr_nocreate(a, name) ==
    IF IsRaise(getattribute(a, name))
    THEN [attrs |-> a, ret |-> PyNone]
    ELSE [attrs |-> a, ret |-> getattribute(a, name)]

\* reading self.<name>: __getattr__ runs when the normal lookup fails
getattr(a, name) ==
    IF IsRaise(getattribute(a, name))
    THEN [attrs |-> setattr(a, name, PyNone), ret |-> PyNone]
    ELSE [attrs |-> a, ret |-> getattribute(a, name)]

\* an assign that sets the default whatever the attribute holds
assign_overwrite(a, attr_name, def_val) ==
    [attrs |-> setattr(a, attr_name, def_val), ret |-> def_val]

assign(a, attr_name, def_val) ==
    LET current == getattr(a, attr_name) IN
    IF current.ret = PyNone
    THEN [attrs |-> setattr(current.attrs, attr_name, def_val), ret |-> def_val]
    ELSE [attrs |-> current.attrs, ret |-> current.ret]

attr_list ==
    {"bool", "int", "float", "complex", "list", "tuple", "dict", "set", "str", "bytes"}

\* the names save_config() keeps from dir(self)
saved_names(a) ==
    {attr_name \in dir(a) :
        /\ ~startswith(attr_name, "_") \/ attr_name = "_comment"
        /\ getattribute(a, attr_name).t \in attr_list}

config_data(a) ==
    PyDict([k \in {PyStr(n) : n \in saved_names(a)} |-> getattribute(a, k.v)])

\* save_config(): the file is opened for writing, which empties it, and
\* json.dump writes the document piece by piece; a TypeError stops it part-way
save_config(a) ==
    LET processed_data == _preprocess(config_data(a))
        doc == json_dump(processed_data)
    IN  IF doc.j = "raise"
        THEN [file |-> Truncated, exc |-> doc.jv]
        ELSE [file |-> doc, exc |-> "none"]

\* a load that decodes and sets one top-level key at a time, so that the
\* keys it could decode are set when another one fails
load_config_partial(a, f) ==
    IF f = NoFile THEN [attrs |-> a, exc |-> "none"]
    ELSE IF f.j # "object" THEN [attrs |-> a, exc |-> "JSONDecodeError"]
    ELSE LET members == [s \in DOMAIN f.jv |-> json_load(f.jv[s])]
             good == {s \in DOMAIN f.jv : ~IsRaise(members[s])}
         IN  [attrs |-> [n \in DOMAIN a \cup good |->
                            IF n \in good THEN members[n] ELSE a[n]],
              exc |-> IF good = DOMAIN f.jv THEN "none"
                      ELSE members[CHOOSE s \in DOMAIN f.jv : s \notin good].v]

\* a load that empties the store of its public attributes before it sets
\* the keys of the file
load_config_reset(a, f) ==
    IF f = NoFile THEN [attrs |-> a, exc |-> "none"]
    ELSE LET data == json_load(f) IN
        IF IsRaise(data) THEN [attrs |-> a, exc |-> data.v]
        ELSE IF ~isinstance(data, "dict") THEN [attrs |-> a, exc |-> "AttributeError"]
        ELSE [attrs |-> [n \in {m \in DOMAIN a : startswith(m, "_")}
                                \cup {k.v : k \in DOMAIN data.v} |->
                            IF PyStr(n) \in DOMAIN data.v
                            THEN data.v[PyStr(n)] ELSE a[n]],
              exc |-> "none"]

\* load_config(): the whole document is decoded, then every top-level key
\* is set as an attribute; a missing file is reported and passed over
load_config(a, f) ==
    IF f = NoFile THEN [attrs |-> a, exc |-> "none"]
    ELSE LET data == json_load(f) IN
        IF IsRaise(data) THEN [attrs |-> a, exc |-> data.v]
        ELSE IF ~isinstance(data, "dict") THEN [attrs |-> a, exc |-> "AttributeError"]
        ELSE [attrs |-> [n \in DOMAIN a \cup {k.v : k \in DOMAIN data.v} |->
                            IF PyStr(n) \in DOMAIN data.v
                            THEN data.v[PyStr(n)] ELSE a[n]],
              exc |-> "none"]

\* ConfigManager(foldr, file_name, comment)
init(comment, f) ==
    load_config(("_file_path" :> PyStr(FilePath)) @@ ("_comment" :> PyStr(comment)), f)

---------------------------------------------------------------------------
(* bounds *)

\* integers are 1..MaxInt
MaxInt == 2
\* byte strings have at most MaxBytesLen bytes
MaxBytesLen == 1
\* containers nest MaxDepth deep
MaxDepth == 2

\* the attributes the operations name, besides _file_path
Names == {"x", "y", "_comment"}

Bytes(alphabet, len) ==
    {PyBytes(b) : b \in UNION {[1..l -> alphabet] : l \in 0..len}}

\* a dict that is not a tagged byte string but reads as one: its data is
\* not base64
BadBytes == Dict2("__type__", PyStr("bytes"), "data", PyStr("x"))

\* the values the store's operations are given: None, a value of a listed
\* type json cannot write, a dict load_config() cannot decode, and tuples
\* holding an integer and a byte string
StoreValues ==
    {PyNone, PyComplex(1, 2), BadBytes}
        \cup {PyTuple(<<PyInt(1), b>>) :
                 b \in Bytes({97}, MaxBytesLen) \ {PyBytes(<<>>)}}

Defaults == {PyNone, PyTuple(<<PyInt(1), PyBytes(<<97>>)>>)}

\* scalars the codec is given
Atoms ==
    {PyNone, PyBool(TRUE), PyFloat("1.5"), PyStr("s"), PyComplex(1, 2), PyObject}
        \cup {PyInt(i) : i \in 1..MaxInt}
        \cup Bytes({0, 97, 255}, MaxBytesLen)

\* x inside each kind of container, and inside dicts that carry the keys
\* the tagged objects use
Wrap(x) ==
    {PyList(<<x>>), PyTuple(<<x>>), Dict1("key", x), PyDict([k \in {PyInt(1)} |-> x]),
     Dict2("__type__", PyStr("bytes"), "data", x)}
        \cup {Dict2("__type__", PyStr(tag), "items", PyList(<<x>>)) :
                 tag \in {"tuple", "set", "foo"}}
        \cup (IF Hashable(x) THEN {PySet({x})} ELSE {})

RECURSIVE Nested(_)
Nested(depth) ==
    IF depth = 0 THEN Atoms
    ELSE Nested(depth - 1) \cup UNION {Wrap(x) : x \in Nested(depth - 1)}

\* the values of the repository's tests
TestValues ==
    {PySet({PyInt(1), PyInt(2), PyInt(3)}),
     PyTuple(<<PyInt(4), PyInt(5), PyInt(6)>>),
     Dict2("A", PyInt(12), "B", PyStr("string item")),
     PyBytes(<<97, 32, 98, 121, 116, 101>>),
     PyList(<<PySet({PyInt(1), PyInt(2)}), PyTuple(<<PyInt(3), PyInt(4)>>),
              Dict1("key", PySet({PyInt(5), PyInt(6)}))>>)}

CodecValues == Nested(MaxDepth) \cup TestValues

\* a file an earlier run saved
PriorFile ==
    save_config(("_comment" :> PyStr(DefaultComment))
                    @@ ("x" :> PyTuple(<<PyInt(1), PyBytes(<<97>>)>>))).file

InitialFiles == {NoFile, Truncated, PriorFile}

---------------------------------------------------------------------------
(* the state machine *)

Done(op, name, arg, ret, exc) ==
    [op |-> op, name |-> name, arg |-> arg, ret |-> ret, exc |-> exc]

Init ==
    /\ attrs = NoAttrs
    /\ file \in InitialFiles
    /\ pc = "new"
    /\ gen = "later"
    /\ last = Done("", "", PyNone, PyNone, "none")

Construct ==
    /\ pc = "new"
    /\ LET r == init(DefaultComment, file) IN
        /\ attrs' = r.attrs
        /\ pc' = IF r.exc = "none" THEN "ready" ELSE "failed"
        /\ last' = Done("__init__", "", PyNone, PyNone, r.exc)
    /\ gen' = IF file = NoFile THEN "none" ELSE "later"
    /\ UNCHANGED file

SetAttr(name, value) ==
    /\ pc = "ready"
    /\ attrs' = setattr(attrs, name, value)
    /\ last' = Done("__setattr__", name, value, PyNone, "none")
    /\ UNCHANGED <<file, pc, gen>>

GetAttr(name) ==
    /\ pc = "ready"
    /\ LET r == getattr(attrs, name) IN
        /\ attrs' = r.attrs
        /\ last' = Done("__getattr__", name, PyNone, r.ret, "none")
    /\ UNCHANGED <<file, pc, gen>>

Assign(name, def_val) ==
    /\ pc = "ready"
    /\ LET r == assign(attrs, name, def_val) IN
        /\ attrs' = r.attrs
        /\ last' = Done("assign", name, def_val, r.ret, "none")
    /\ UNCHANGED <<file, pc, gen>>

SaveConfig ==
    /\ pc = "ready"
    /\ LET r == save_config(attrs) IN
        /\ file' = r.file
        /\ last' = Done("save_config", "", PyNone, PyNone, r.exc)
    /\ gen' = IF gen = "none" THEN "first" ELSE "later"
    /\ UNCHANGED <<attrs, pc>>

LoadConfig ==
    /\ pc = "ready"
    /\ LET r == load_config(attrs, file) IN
        /\ attrs' = r.attrs
        /\ last' = Done("load_config", "", PyNone, PyNone, r.exc)
    /\ UNCHANGED <<file, pc, gen>>

Next ==
    \/ Construct
    \/ \E name \in Names, value \in StoreValues : SetAttr(name, value)
    \/ \E name \in Names : GetAttr(name)
    \/ \E name \in Names, def_val \in Defaults : Assign(name, def_val)
    \/ SaveConfig
    \/ LoadConfig

Spec == Init /\ [][Next]_vars

\* the codec alone: a store just made, with no file, whose attribute x was
\* set to a value, then saved and loaded
InitCodec ==
    \E value \in CodecValues :
        /\ attrs = setattr(init(DefaultComment, NoFile).attrs, "x", value)
        /\ file = NoFile
        /\ pc = "ready"
        /\ gen = "none"
        /\ last = Done("__setattr__", "x", value, PyNone, "none")

NextCodec ==
    \/ SaveConfig
    \/ LoadConfig

SpecCodec == InitCodec /\ [][NextCodec]_vars

---------------------------------------------------------------------------
(* the claims *)

\* the values the round-trip law names: booleans, integers, floats, strings,
\* byte strings, and lists, tuples, sets and string-keyed mappings of them
RECURSIVE Supported(_)
Supported(x) ==
    CASE x.t \in {"bool", "int", "float", "str", "bytes"} -> TRUE
      [] x.t \in {"list", "tuple"} -> \A i \in 1..Len(x.v) : Supported(x.v[i])
      [] x.t = "set" -> \A e \in x.v : Supported(e)
      [] x.t = "dict" -> \A k \in DOMAIN x.v : k.t = "str" /\ Supported(x.v[k])
      [] OTHER -> FALSE

\* a supported value none of whose mappings has the key "__type__"
RECURSIVE Untagged(_)
Untagged(x) ==
    CASE x.t \in {"list", "tuple"} -> \A i \in 1..Len(x.v) : Untagged(x.v[i])
      [] x.t = "set" -> \A e \in x.v : Untagged(e)
      [] x.t = "dict" -> /\ PyStr("__type__") \notin DOMAIN x.v
                         /\ \A k \in DOMAIN x.v : Untagged(x.v[k])
      [] OTHER -> TRUE

\* C1: a public attribute holding a supported value is equal to that value
\* after save_config() and then load_config(): Decode(Encode(v)) = v.
C1_RoundTrip ==
    [][(last.op = "save_config" /\ last.exc = "none" /\ last'.op = "load_config")
        => \A n \in DOMAIN attrs :
              (~startswith(n, "_") /\ Supported(attrs[n]))
                  => (n \in DOMAIN attrs' /\ attrs'[n] = attrs[n])]_vars

\* What does hold of the codec (SpecCodec): the round trip of a supported
\* value none of whose mappings has the key "__type__".
RoundTripOfUntagged ==
    \A n \in DOMAIN attrs :
        (Supported(attrs[n]) /\ Untagged(attrs[n]))
            => json_load(json_dump(_preprocess(attrs[n]))) = attrs[n]

\* C2: the file save_config() wrote holds exactly the store: its keys are
\* the attributes whose name does not start with "_" and whose type is in
\* the allow-list, plus "_comment", each with its current value.  (The
\* comment is asked for here only when its type is in the allow-list; C3
\* is the claim that it is always there.)
C2_FileHoldsStore ==
    last.op = "save_config" =>
        /\ file.j = "object"
        /\ DOMAIN file.jv =
              {n \in DOMAIN attrs :
                  /\ ~startswith(n, "_") \/ n = "_comment"
                  /\ attrs[n].t \in attr_list}
        /\ \A n \in DOMAIN file.jv : file.jv[n] = json_dump(_preprocess(attrs[n]))

\* C3: whatever the attributes hold, the file save_config() wrote has the
\* key "_comment" with the store's current comment.
C3_CommentPersisted ==
    last.op = "save_config" =>
        /\ file.j = "object"
        /\ "_comment" \in DOMAIN file.jv
        /\ file.jv["_comment"] = json_dump(_preprocess(attrs["_comment"]))

\* a document holding an object whose "__type__" is none of tuple, set, bytes
RECURSIVE HasUnknownTag(_)
HasUnknownTag(doc) ==
    CASE doc.j = "array" -> \E i \in 1..Len(doc.jv) : HasUnknownTag(doc.jv[i])
      [] doc.j = "object" ->
            \/ /\ "__type__" \in DOMAIN doc.jv
               /\ doc.jv["__type__"] \notin
                      {JString("tuple"), JString("set"), JString("bytes")}
            \/ \E s \in DOMAIN doc.jv : HasUnknownTag(doc.jv[s])
      [] OTHER -> FALSE

\* C4: load_config() of a file holding a tagged object with an unrecognized
\* "__type__" fails (with CorruptConfigError; any exception satisfies this
\* formula), and the object is never stored as an ordinary mapping.
C4_UnknownTagRaises ==
    (last.op = "load_config" /\ HasUnknownTag(file)) => last.exc # "none"

\* C5: a load_config() that fails leaves the store as it was before the
\* call: no attribute is created or changed from the file.
C5_FailedLoadLeavesStore ==
    [][(last'.op = "load_config" /\ last'.exc # "none") => attrs' = attrs]_vars

\* a load has failed on a file one of whose keys decodes to a value the
\* store does not hold under that name
C5_Witness ==
    /\ last.op = "load_config"
    /\ last.exc # "none"
    /\ file.j = "object"
    /\ \E s \in DOMAIN file.jv :
          /\ ~IsRaise(json_load(file.jv[s]))
          /\ s \in DOMAIN attrs
          /\ attrs[s] # json_load(file.jv[s])

\* a value holding, at any depth, an object of no recognized kind
RECURSIVE HasUnrecognized(_)
HasUnrecognized(x) ==
    CASE x.t \in {"list", "tuple"} -> \E i \in 1..Len(x.v) : HasUnrecognized(x.v[i])
      [] x.t = "set" -> \E e \in x.v : HasUnrecognized(e)
      [] x.t = "dict" -> \E k \in DOMAIN x.v : HasUnrecognized(x.v[k])
      [] OTHER -> x.t \in {"object", "method"}

\* C6: a save_config() whose data holds a value of no recognized kind fails
\* with UnsupportedTypeError at encode time: the encoder does not pass the
\* value through, and the failure comes before anything is written.
C6_UnsupportedRaisesAtEncode ==
    (/\ last.op = "save_config"
     /\ \E n \in saved_names(attrs) : HasUnrecognized(attrs[n]))
        => /\ last.exc = "UnsupportedTypeError"
           /\ file # Truncated
           /\ \A n \in saved_names(attrs) :
                 HasUnrecognized(attrs[n]) => _preprocess(attrs[n]) # attrs[n]

\* C7: with no file at the path, construction completes and leaves only the
\* comment (and the path) set; the first save after it creates the file,
\* and a load after that save succeeds.
C7_FileAbsent ==
    /\ (last.op = "__init__" /\ file = NoFile)
          => /\ last.exc = "none"
             /\ pc = "ready"
             /\ DOMAIN attrs = {"_file_path", "_comment"}
    /\ gen = "first" => file # NoFile
    /\ (gen = "first" /\ last.op = "load_config") => last.exc = "none"

\* C8: assign(name, default) returns the attribute's value and leaves the
\* store unchanged when the attribute exists and is not None; otherwise it
\* sets the attribute to default and returns default.  Either way a read of
\* the attribute then yields the value returned, and no other attribute is
\* changed.
C8_Assign ==
    [][last'.op = "assign" =>
        LET n == last'.name
            d == last'.arg
        IN  /\ (n \in DOMAIN attrs /\ attrs[n] # PyNone)
                  => (last'.ret = attrs[n] /\ attrs' = attrs)
            /\ (n \notin DOMAIN attrs \/ attrs[n] = PyNone)
                  => (last'.ret = d /\ n \in DOMAIN attrs' /\ attrs'[n] = d)
            /\ n \in DOMAIN attrs' /\ attrs'[n] = last'.ret
            /\ DOMAIN attrs' = DOMAIN attrs \cup {n}
            /\ \A m \in DOMAIN attrs \ {n} : attrs'[m] = attrs[m]]_vars

\* assign was given a default other than the value the attribute held, and
\* returned the value held
C8_Witness ==
    /\ last.op = "assign"
    /\ last.ret # last.arg
    /\ last.ret # PyNone
    /\ attrs[last.name] = last.ret

\* C9: reading an attribute never set returns None and creates it with the
\* value None, changing no other attribute; a read of an attribute that
\* exists returns its value and changes nothing, and an attribute that is
\* None stays None until it is assigned (by an assignment, assign() or a
\* load).
C9_GetAttr ==
    [][/\ last'.op = "__getattr__" =>
            LET n == last'.name IN
            /\ n \notin DOMAIN attrs =>
                  /\ last'.ret = PyNone
                  /\ attrs' = [m \in DOMAIN attrs \cup {n} |->
                                  IF m = n THEN PyNone ELSE attrs[m]]
            /\ n \in DOMAIN attrs => (last'.ret = attrs[n] /\ attrs' = attrs)
       /\ \A n \in DOMAIN attrs :
            (attrs[n] = PyNone /\ (n \notin DOMAIN attrs' \/ attrs'[n] # PyNone))
                => \/ last'.op \in {"__setattr__", "assign"} /\ last'.name = n
                   \/ last'.op = "load_config"]_vars

\* a read has returned None for an attribute that is in the store with the
\* value None, in a store that was built with no file and never loaded one
C9_Witness ==
    /\ last.op = "__getattr__"
    /\ last.ret = PyNone
    /\ last.name \in DOMAIN attrs
    /\ attrs[last.name] = PyNone
    /\ gen = "none"

\* C10: load_config() sets the attributes the file's top-level keys name and
\* no other: an attribute in the store that the file does not name keeps its
\* value, and none is removed.
C10_LoadOnlyOverwrites ==
    [][last'.op = "load_config" =>
        LET keys == IF file.j = "object" THEN DOMAIN file.jv ELSE {} IN
        /\ DOMAIN attrs \subseteq DOMAIN attrs'
        /\ DOMAIN attrs' \subseteq DOMAIN attrs \cup keys
        /\ \A n \in DOMAIN attrs \ keys : attrs'[n] = attrs[n]
        /\ last'.exc = "none" =>
              \A s \in keys : s \in DOMAIN attrs' /\ attrs'[s] = json_load(file.jv[s])]_vars

\* a load has set x from the file while the store holds a public attribute,
\* y, that the file does not name
C10_Witness ==
    /\ last.op = "load_config"
    /\ last.exc = "none"
    /\ file.j = "object"
    /\ "x" \in DOMAIN file.jv
    /\ "y" \in DOMAIN attrs
    /\ "y" \notin DOMAIN file.jv
    /\ attrs["x"] = json_load(file.jv["x"])

====
